---- MODULE Spec2Model ----
(***************************************************************************)
(* Model of the multi-agent tmux orchestrator: the agent-determination     *)
(* engine (lib/task_analyzer.py), the tmux session controller              *)
(* (lib/tmux_manager.py) and the orchestration run (orchestrator.py).      *)
(* Text is a sequence of one-character strings, so that the regular        *)
(* expression scan and the substring counts are computed, not assumed.     *)
(***************************************************************************)
EXTENDS Integers, Sequences, FiniteSets, TLC

\* ------------------------------------------------------------------------
\* Bounds of the model
\* ------------------------------------------------------------------------
\* number of text fragments concatenated into a workplan text
MaxFrags == 2
\* number of marker paths present in a project directory
MaxMarkers == 1
\* length of the agents argument of create_session
MaxAgents == 9
\* number of splits of one create_session that find no room
MaxNoSpace == 1
\* number of commands dispatched into the panes of one session
MaxDispatch == 1
\* number of "## @role Tasks" sections in WORKPLAN.md
MaxSections == 2

\* ------------------------------------------------------------------------
\* Characters
\* ------------------------------------------------------------------------
\* the characters of the model in ascending code point order
Ascii ==
    <<" ", "-", "/", "0", "1", "2", "3", "4", "5", "6", "7", "8", "9", "@",
      "A", "B", "C", "D", "E", "F", "G", "H", "I", "J", "K", "L", "M",
      "N", "O", "P", "Q", "R", "S", "T", "U", "V", "W", "X", "Y", "Z", "_",
      "a", "b", "c", "d", "e", "f", "g", "h", "i", "j", "k", "l", "m",
      "n", "o", "p", "q", "r", "s", "t", "u", "v", "w", "x", "y", "z">>

Chars == {Ascii[i] : i \in 1..Len(Ascii)}

\* the code point order of the characters
Ord == [c \in Chars |-> CHOOSE i \in 1..Len(Ascii) : Ascii[i] = c]

\* str.lower() on one character: "A".."Z" to "a".."z"
LowerChar ==
    [c \in Chars |-> IF Ord[c] >= 15 /\ Ord[c] <= 40
                     THEN Ascii[Ord[c] + 27] ELSE c]

\* str.lower()
Lower(s) == <<>> \o [i \in 1..Len(s) |-> LowerChar[s[i]]]

\* the character class [\w-] of the mention pattern: "-", digits, letters
\* and "_"
NameChars ==
    {c \in Chars : c = "-" \/ (Ord[c] >= 4 /\ Ord[c] <= 13) \/ Ord[c] >= 15}

NameChar(c) == c \in NameChars

\* s < t in Python's string order
RECURSIVE StrLess(_, _)
StrLess(s, t) ==
    IF t = <<>> THEN FALSE
    ELSE IF s = <<>> THEN TRUE
    ELSE IF s[1] # t[1] THEN Ord[s[1]] < Ord[t[1]]
    ELSE StrLess(Tail(s), Tail(t))

\* ------------------------------------------------------------------------
\* lib/task_analyzer.py
\* ------------------------------------------------------------------------
KEYWORD_AGENT_MAP ==
    "frontend-architect" :> <<
        <<"r", "e", "a", "c", "t">>,
        <<"v", "u", "e">>,
        <<"s", "v", "e", "l", "t", "e">>,
        <<"c", "o", "m", "p", "o", "n", "e", "n", "t">>,
        <<"u", "i">>,
        <<"c", "s", "s">>,
        <<"t", "a", "i", "l", "w", "i", "n", "d">>,
        <<"f", "r", "o", "n", "t", "e", "n", "d">>,
        <<"c", "l", "i", "e", "n", "t">>,
        <<"w", "e", "b">>,
        <<"t", "y", "p", "e", "s", "c", "r", "i", "p", "t">>,
        <<"j", "s", "x">>,
        <<"t", "s", "x">>
    >>
    @@ "backend-architect" :> <<
        <<"a", "p", "i">>,
        <<"b", "a", "c", "k", "e", "n", "d">>,
        <<"s", "e", "r", "v", "e", "r">>,
        <<"d", "a", "t", "a", "b", "a", "s", "e">>,
        <<"a", "u", "t", "h">>,
        <<"a", "u", "t", "h", "e", "n", "t", "i", "c", "a", "t", "i", "o", "n">>,
        <<"e", "n", "d", "p", "o", "i", "n", "t">>,
        <<"r", "e", "s", "t">>,
        <<"g", "r", "a", "p", "h", "q", "l">>,
        <<"n", "o", "d", "e">>,
        <<"p", "y", "t", "h", "o", "n">>,
        <<"g", "o">>,
        <<"r", "u", "s", "t">>
    >>
    @@ "devops-engineer" :> <<
        <<"d", "o", "c", "k", "e", "r">>,
        <<"k", "u", "b", "e", "r", "n", "e", "t", "e", "s">>,
        <<"k", "8", "s">>,
        <<"c", "i", "/", "c", "d">>,
        <<"d", "e", "p", "l", "o", "y", "m", "e", "n", "t">>,
        <<"i", "n", "f", "r", "a">>,
        <<"t", "e", "r", "r", "a", "f", "o", "r", "m">>,
        <<"a", "w", "s">>,
        <<"g", "c", "p">>,
        <<"a", "z", "u", "r", "e">>,
        <<"p", "i", "p", "e", "l", "i", "n", "e">>,
        <<"g", "i", "t", "h", "u", "b", " ", "a", "c", "t", "i", "o", "n", "s">>
    >>
    @@ "qa-engineer" :> <<
        <<"e", "2", "e">>,
        <<"i", "n", "t", "e", "g", "r", "a", "t", "i", "o", "n", " ", "t", "e", "s", "t">>,
        <<"t", "e", "s", "t", " ", "p", "l", "a", "n">>,
        <<"p", "l", "a", "y", "w", "r", "i", "g", "h", "t">>,
        <<"c", "y", "p", "r", "e", "s", "s">>,
        <<"t", "e", "s", "t", "i", "n", "g", " ", "s", "t", "r", "a", "t", "e", "g", "y">>,
        <<"m", "a", "n", "u", "a", "l", " ", "t", "e", "s", "t">>,
        <<"q", "a">>
    >>
    @@ "test-architect" :> <<
        <<"u", "n", "i", "t", " ", "t", "e", "s", "t">>,
        <<"j", "e", "s", "t">>,
        <<"v", "i", "t", "e", "s", "t">>,
        <<"p", "y", "t", "e", "s", "t">>,
        <<"t", "e", "s", "t", " ", "c", "o", "v", "e", "r", "a", "g", "e">>,
        <<"m", "o", "c", "k", "i", "n", "g">>,
        <<"t", "d", "d">>
    >>
    @@ "database-architect" :> <<
        <<"s", "c", "h", "e", "m", "a">>,
        <<"m", "i", "g", "r", "a", "t", "i", "o", "n">>,
        <<"d", "a", "t", "a", "b", "a", "s", "e", " ", "d", "e", "s", "i", "g", "n">>,
        <<"s", "q", "l">>,
        <<"p", "o", "s", "t", "g", "r", "e", "s">>,
        <<"m", "o", "n", "g", "o", "d", "b">>,
        <<"q", "u", "e", "r", "y", " ", "o", "p", "t", "i", "m", "i", "z", "a", "t", "i", "o", "n">>,
        <<"i", "n", "d", "e", "x">>
    >>
    @@ "api-designer" :> <<
        <<"o", "p", "e", "n", "a", "p", "i">>,
        <<"a", "p", "i", " ", "s", "p", "e", "c">>,
        <<"a", "p", "i", " ", "c", "o", "n", "t", "r", "a", "c", "t">>,
        <<"g", "r", "a", "p", "h", "q", "l", " ", "s", "c", "h", "e", "m", "a">>,
        <<"a", "p", "i", " ", "d", "e", "s", "i", "g", "n">>,
        <<"s", "w", "a", "g", "g", "e", "r">>
    >>
    @@ "security-auditor" :> <<
        <<"s", "e", "c", "u", "r", "i", "t", "y">>,
        <<"v", "u", "l", "n", "e", "r", "a", "b", "i", "l", "i", "t", "y">>,
        <<"o", "w", "a", "s", "p">>,
        <<"p", "e", "n", " ", "t", "e", "s", "t">>,
        <<"a", "u", "t", "h">>,
        <<"e", "n", "c", "r", "y", "p", "t", "i", "o", "n">>,
        <<"s", "e", "c", "u", "r", "i", "t", "y", " ", "r", "e", "v", "i", "e", "w">>
    >>
    @@ "documentation-writer" :> <<
        <<"r", "e", "a", "d", "m", "e">>,
        <<"d", "o", "c", "u", "m", "e", "n", "t", "a", "t", "i", "o", "n">>,
        <<"a", "p", "i", " ", "d", "o", "c", "s">>,
        <<"g", "u", "i", "d", "e">>,
        <<"t", "u", "t", "o", "r", "i", "a", "l">>
    >>

RoleChars ==
    "frontend-architect" :> <<"f", "r", "o", "n", "t", "e", "n", "d", "-", "a", "r", "c", "h", "i", "t", "e", "c", "t">>
    @@ "backend-architect" :> <<"b", "a", "c", "k", "e", "n", "d", "-", "a", "r", "c", "h", "i", "t", "e", "c", "t">>
    @@ "devops-engineer" :> <<"d", "e", "v", "o", "p", "s", "-", "e", "n", "g", "i", "n", "e", "e", "r">>
    @@ "qa-engineer" :> <<"q", "a", "-", "e", "n", "g", "i", "n", "e", "e", "r">>
    @@ "test-architect" :> <<"t", "e", "s", "t", "-", "a", "r", "c", "h", "i", "t", "e", "c", "t">>
    @@ "database-architect" :> <<"d", "a", "t", "a", "b", "a", "s", "e", "-", "a", "r", "c", "h", "i", "t", "e", "c", "t">>
    @@ "api-designer" :> <<"a", "p", "i", "-", "d", "e", "s", "i", "g", "n", "e", "r">>
    @@ "security-auditor" :> <<"s", "e", "c", "u", "r", "i", "t", "y", "-", "a", "u", "d", "i", "t", "o", "r">>
    @@ "documentation-writer" :> <<"d", "o", "c", "u", "m", "e", "n", "t", "a", "t", "i", "o", "n", "-", "w", "r", "i", "t", "e", "r">>
    @@ "fullstack-dev" :> <<"f", "u", "l", "l", "s", "t", "a", "c", "k", "-", "d", "e", "v">>
    @@ "ghost" :> <<"g", "h", "o", "s", "t">>

FALLBACK_AGENT == "fullstack-dev"

threshold == 2

ProfileRoles == DOMAIN KEYWORD_AGENT_MAP

\* sorted(list(s)) for a set of role names
RECURSIVE Sorted(_)
Sorted(S) ==
    IF S = {} THEN <<>>
    ELSE LET m == CHOOSE x \in S :
                    \A y \in S \ {x} : StrLess(RoleChars[x], RoleChars[y])
         IN <<m>> \o Sorted(S \ {m})

Range(s) == {s[i] : i \in 1..Len(s)}

\* end of the maximal run of [\w-] characters that starts at position i
RECURSIVE RunEnd(_, _)
RunEnd(content, i) ==
    IF i < Len(content) /\ NameChar(content[i + 1])
    THEN RunEnd(content, i + 1)
    ELSE i

\* the group(1) of every match of @([\w-]+) in content
Mentions(content) ==
    {SubSeq(content, i + 1, RunEnd(content, i + 1)) :
        i \in {j \in 1..(Len(content) - 1) :
                 content[j] = "@" /\ NameChar(content[j + 1])}}

FindExplicitAgents(content, available_agents) ==
    {agent \in available_agents : RoleChars[agent] \in Mentions(content)}

MatchAt(s, kw, i) == \A k \in 1..Len(kw) : s[i + k - 1] = kw[k]

\* str.count: occurrences found left to right, each search resuming after
\* the end of the previous occurrence
RECURSIVE CountFrom(_, _, _)
CountFrom(s, kw, i) ==
    IF i + Len(kw) - 1 > Len(s) THEN 0
    ELSE IF MatchAt(s, kw, i) THEN 1 + CountFrom(s, kw, i + Len(kw))
    ELSE CountFrom(s, kw, i + 1)

Count(s, kw) == CountFrom(s, kw, 1)

RECURSIVE SumCounts(_, _, _)
SumCounts(s, keywords, k) ==
    IF k > Len(keywords) THEN 0
    ELSE Count(s, Lower(keywords[k])) + SumCounts(s, keywords, k + 1)

Score(content, agent) ==
    SumCounts(Lower(content), KEYWORD_AGENT_MAP[agent], 1)

\* _analyze_by_keywords with scores above the threshold only
AnalyzeByKeywordsAboveThreshold(content, available_agents) ==
    LET scored == {agent \in ProfileRoles \cap available_agents :
                     Score(content, agent) > 0}
        agent_scores == [agent \in scored |-> Score(content, agent)]
    IN {agent \in scored : agent_scores[agent] > threshold}

AnalyzeByKeywords(content, available_agents) ==
    LET scored == {agent \in ProfileRoles \cap available_agents :
                     Score(content, agent) > 0}
        agent_scores == [agent \in scored |-> Score(content, agent)]
    IN {agent \in scored : agent_scores[agent] >= threshold}

\* analyze_workplan with keyword scoring run in every case
WorkplanAgentsAlwaysKeywords(content, available_agents) ==
    LET explicit_agents == FindExplicitAgents(content, available_agents)
        keyword_agents == AnalyzeByKeywords(content, available_agents)
        required_agents == (explicit_agents \cup keyword_agents)
                               \cap available_agents
    IN IF required_agents = {} /\ FALLBACK_AGENT \in available_agents
       THEN required_agents \cup {FALLBACK_AGENT}
       ELSE required_agents

\* the role set of analyze_workplan before sorting
WorkplanAgents(content, available_agents) ==
    LET explicit_agents == FindExplicitAgents(content, available_agents)
        keyword_agents == IF explicit_agents = {}
                          THEN AnalyzeByKeywords(content, available_agents)
                          ELSE {}
        required_agents == (explicit_agents \cup keyword_agents)
                               \cap available_agents
    IN IF required_agents = {} /\ FALLBACK_AGENT \in available_agents
       THEN required_agents \cup {FALLBACK_AGENT}
       ELSE required_agents

AnalyzeWorkplan(content, available_agents) ==
    Sorted(WorkplanAgents(content, available_agents))

\* <any of the marker paths exists> -> roles added, in the order of the code
StructureTable ==
    << [markers |-> {"frontend", "client", "web", "src/components",
                     "package.json"},
        agents  |-> {"frontend-architect"}],
       [markers |-> {"backend", "server", "api", "requirements.txt",
                     "go.mod", "Cargo.toml"},
        agents  |-> {"backend-architect"}],
       [markers |-> {"Dockerfile", "docker-compose.yml",
                     ".github/workflows", "infra", "terraform"},
        agents  |-> {"devops-engineer"}],
       [markers |-> {"tests", "test", "__tests__"},
        agents  |-> {"test-architect", "qa-engineer"}] >>

\* the role set of analyze_project_structure before sorting; entries are the
\* paths that exist under the project directory
\* analyze_project_structure without the filter to available agents
StructureAgentsUnfiltered(entries, available_agents) ==
    UNION {StructureTable[k].agents :
             k \in {j \in 1..Len(StructureTable) :
                      StructureTable[j].markers \cap entries # {}}}

StructureAgents(entries, available_agents) ==
    LET required_agents ==
            UNION {StructureTable[k].agents :
                     k \in {j \in 1..Len(StructureTable) :
                              StructureTable[j].markers \cap entries # {}}}
    IN required_agents \cap available_agents

AnalyzeProjectStructure(entries, available_agents) ==
    Sorted(StructureAgents(entries, available_agents))

\* an argument left at its default
None == <<"None">>
NoDir == "None"

\* truth value of an Optional[str] argument
TruthyText(workplan_content) ==
    workplan_content # None /\ workplan_content # <<>>
TruthyDir(project_dir) == project_dir # NoDir /\ project_dir # ""

\* determine_agents with the fallback added without asking whether it is
\* available
DeterminedAgentsAnyFallback(workplan_content, project_dir, entries, available_agents) ==
    LET fromWorkplan ==
            IF TruthyText(workplan_content)
            THEN Range(AnalyzeWorkplan(workplan_content, available_agents))
            ELSE {}
        fromStructure ==
            IF TruthyDir(project_dir)
            THEN Range(AnalyzeProjectStructure(entries, available_agents))
            ELSE {}
        agents == fromWorkplan \cup fromStructure
    IN IF agents = {} THEN agents \cup {FALLBACK_AGENT} ELSE agents

\* determine_agents without its own fallback step
DeterminedAgentsNoFallback(workplan_content, project_dir, entries, available_agents) ==
    LET fromWorkplan ==
            IF TruthyText(workplan_content)
            THEN Range(AnalyzeWorkplan(workplan_content, available_agents))
            ELSE {}
        fromStructure ==
            IF TruthyDir(project_dir)
            THEN Range(AnalyzeProjectStructure(entries, available_agents))
            ELSE {}
    IN fromWorkplan \cup fromStructure

\* determine_agents with the project structure consulted only when the
\* explicit mentions and the keyword scores yield no role
DeterminedAgentsStructureLast(workplan_content, project_dir, entries, available_agents) ==
    LET fromWorkplan ==
            IF TruthyText(workplan_content)
            THEN Range(AnalyzeWorkplan(workplan_content, available_agents))
            ELSE {}
        tiers ==
            IF TruthyText(workplan_content)
            THEN FindExplicitAgents(workplan_content, available_agents)
                    \cup AnalyzeByKeywords(workplan_content, available_agents)
            ELSE {}
        fromStructure ==
            IF TruthyDir(project_dir) /\ tiers = {}
            THEN Range(AnalyzeProjectStructure(entries, available_agents))
            ELSE {}
        agents == fromWorkplan \cup fromStructure
    IN IF agents = {} /\ FALLBACK_AGENT \in available_agents
       THEN agents \cup {FALLBACK_AGENT}
       ELSE agents

\* the role set of determine_agents before sorting
DeterminedAgents(workplan_content, project_dir, entries, available_agents) ==
    LET fromWorkplan ==
            IF TruthyText(workplan_content)
            THEN Range(AnalyzeWorkplan(workplan_content, available_agents))
            ELSE {}
        fromStructure ==
            IF TruthyDir(project_dir)
            THEN Range(AnalyzeProjectStructure(entries, available_agents))
            ELSE {}
        agents == fromWorkplan \cup fromStructure
    IN IF agents = {} /\ FALLBACK_AGENT \in available_agents
       THEN agents \cup {FALLBACK_AGENT}
       ELSE agents

DetermineAgents(workplan_content, project_dir, entries, available_agents) ==
    Sorted(DeterminedAgents(workplan_content, project_dir, entries,
                            available_agents))

\* ------------------------------------------------------------------------
\* lib/tmux_manager.py: the commands the manager issues
\* ------------------------------------------------------------------------
\* -t <session>
SessionTarget == [kind |-> "session", index |-> 0]
\* -t <session>:<index>
WindowTarget(index) == [kind |-> "window", index |-> index]
\* -t <session>.<index>
PaneTarget(index) == [kind |-> "pane", index |-> index]

\* one tmux invocation: the subcommand, its -t target, its text argument
\* and its numeric argument
Cmd(cmd, target, text, n) ==
    [cmd |-> cmd, target |-> target, keys |-> "", text |-> text, n |-> n]

\* the keys _set_pane_title types for a title: the escape sequence that
\* sets the title and the banner "=== TITLE ==="
TitleKeys(target, title) ==
    [cmd |-> "send-keys", target |-> target, keys |-> "title",
     text |-> title, n |-> 0]

\* the keys send_command types: the command and Enter
CommandKeys(target, command) ==
    [cmd |-> "send-keys", target |-> target, keys |-> "command",
     text |-> command, n |-> 0]

HasSessionCmd == Cmd("has-session", SessionTarget, "", 0)
NewSessionCmd == Cmd("new-session", SessionTarget, "-d", 0)
StatusRightCmd(num_agents) ==
    Cmd("set-option", SessionTarget, "status-right", num_agents)
SyncOffCmd ==
    Cmd("set-window-option", SessionTarget, "synchronize-panes off", 0)
SelectLayoutCmd ==
    Cmd("select-layout", SessionTarget, "tiled", 0)
AttachCmd == Cmd("attach-session", SessionTarget, "", 0)
KillSessionCmd == Cmd("kill-session", SessionTarget, "", 0)
ListPanesCmd == Cmd("list-panes", SessionTarget, "", 0)

SplitWindow(direction) ==
    Cmd("split-window", SessionTarget, direction, 0)

SetPaneTitle(pane_index, title) ==
    TitleKeys(WindowTarget(pane_index), title)

SelectPane(pane_index) ==
    Cmd("select-pane", PaneTarget(pane_index), "", 0)

SendCommandCmd(pane_index, command) ==
    CommandKeys(PaneTarget(pane_index), command)

CreateGridLayout(agents, rows, cols) ==
    [i \in 1..(cols - 1) |-> SplitWindow("h")]
    \o [k \in 1..(2 * (rows - 1) * cols) |->
            IF k % 2 = 1 THEN SelectPane((k - 1) \div 2)
            ELSE SplitWindow("v")]
    \o [k \in 1..(IF Len(agents) < rows * cols
                  THEN Len(agents) ELSE rows * cols) |->
            SetPaneTitle(k - 1, agents[k])]
    \o <<SelectLayoutCmd>>

CreateTiledLayout(agents) ==
    [i \in 1..(Len(agents) - 1) |->
        SplitWindow(IF i % 2 = 0 THEN "h" ELSE "v")]
    \o <<SelectLayoutCmd>>
    \o [k \in 1..Len(agents) |-> SetPaneTitle(k - 1, agents[k])]

\* the layout branch of create_session
LayoutCmds(agents) ==
    LET num_agents == Len(agents)
    IN IF num_agents = 1 THEN <<SetPaneTitle(0, agents[1])>>
       ELSE IF num_agents = 2
       THEN <<SplitWindow("h"), SetPaneTitle(0, agents[1]),
              SetPaneTitle(1, agents[2])>>
       ELSE IF num_agents <= 4 THEN CreateGridLayout(agents, 2, 2)
       ELSE IF num_agents <= 6 THEN CreateGridLayout(agents, 2, 3)
       ELSE CreateTiledLayout(agents)

\* create_session returning from the tiled branch, before the last command
NewSessionCmdsTiledReturns(agents) ==
    <<NewSessionCmd, StatusRightCmd(Len(agents))>>
    \o LayoutCmds(agents)
    \o (IF Len(agents) > 6 THEN <<>> ELSE <<SyncOffCmd>>)

\* create_session from new-session to the end
NewSessionCmds(agents) ==
    <<NewSessionCmd, StatusRightCmd(Len(agents))>>
    \o LayoutCmds(agents)
    \o <<SyncOffCmd>>

\* every answer taken as a yes
RecreateAlways(user_input) == TRUE

\* the answer that makes create_session kill the existing session
Recreate(user_input) == Lower(user_input) = <<"y">>

\* kill_session, given what has-session answers
KillSessionCmds(exists) ==
    IF exists THEN <<HasSessionCmd, KillSessionCmd>> ELSE <<HasSessionCmd>>

\* the outcome of create_session: the commands it issues, in order, and the
\* exception it raises; exists is the answer of the first has-session
CreateSession(exists, agents, user_input) ==
    LET check == <<HasSessionCmd>>
        kill == IF exists THEN KillSessionCmds(exists) ELSE <<>>
    IN IF exists /\ ~Recreate(user_input)
       THEN [cmds |-> check \o <<AttachCmd>>, raised |-> "", created |-> FALSE]
       ELSE IF Len(agents) = 0
       THEN [cmds |-> check \o kill, raised |-> "ValueError",
             created |-> FALSE]
       ELSE [cmds |-> check \o kill \o NewSessionCmds(agents),
             raised |-> "", created |-> TRUE]

\* ------------------------------------------------------------------------
\* tmux, as the manager's commands act on it (one session, one window named
\* "agents", window and pane indices starting at 0)
\* ------------------------------------------------------------------------
NoSession ==
    [exists |-> FALSE, panes |-> <<>>, active |-> 0, sync |-> FALSE,
     layout |-> "", status |-> 0]

\* the panes a send-keys to the target reaches: <session>:<i> names window
\* i and reaches its active pane, <session>.<i> names pane i of the current
\* window; with synchronize-panes on, keys reach every pane of the window
Reached(m, target) ==
    LET one == IF target.kind = "pane"
               THEN IF target.index < Len(m.panes)
                    THEN {target.index} ELSE {}
               ELSE IF target.kind = "window"
               THEN IF target.index = 0 THEN {m.active} ELSE {}
               ELSE {m.active}
    IN IF ~m.exists THEN {}
       ELSE IF one # {} /\ m.sync THEN 0..(Len(m.panes) - 1)
       ELSE one

\* panes with a new empty pane inserted after position active (0-based)
InsertAfter(panes, active) ==
    SubSeq(panes, 1, active + 1) \o << <<>> >>
        \o SubSeq(panes, active + 2, Len(panes))

\* panes after the keys are typed into every pane of reached
Typed(panes, reached, keys) ==
    <<>> \o [i \in 1..Len(panes) |->
                IF (i - 1) \in reached THEN Append(panes[i], keys)
                ELSE panes[i]]

\* the effect of one command: the session afterwards and the exit status;
\* space says whether a split finds room for a new pane
TmuxExec(m, c, space) ==
    CASE c.cmd = "has-session" -> [m |-> m, ok |-> m.exists]
      [] c.cmd = "new-session" ->
            IF m.exists THEN [m |-> m, ok |-> FALSE]
            ELSE [m |-> [exists |-> TRUE, panes |-> << <<>> >>, active |-> 0,
                         sync |-> FALSE, layout |-> "", status |-> 0],
                  ok |-> TRUE]
      [] c.cmd = "kill-session" ->
            IF m.exists THEN [m |-> NoSession, ok |-> TRUE]
            ELSE [m |-> m, ok |-> FALSE]
      [] c.cmd = "set-option" ->
            IF m.exists THEN [m |-> [m EXCEPT !.status = c.n], ok |-> TRUE]
            ELSE [m |-> m, ok |-> FALSE]
      [] c.cmd = "set-window-option" ->
            IF m.exists
            THEN [m |-> [m EXCEPT !.sync = (c.text = "synchronize-panes on")],
                  ok |-> TRUE]
            ELSE [m |-> m, ok |-> FALSE]
      [] c.cmd = "select-layout" ->
            IF m.exists THEN [m |-> [m EXCEPT !.layout = c.text], ok |-> TRUE]
            ELSE [m |-> m, ok |-> FALSE]
      [] c.cmd = "split-window" ->
            IF m.exists /\ space
            THEN [m |-> [m EXCEPT !.panes = InsertAfter(m.panes, m.active),
                                  !.active = m.active + 1,
                                  !.layout = "split"],
                  ok |-> TRUE]
            ELSE [m |-> m, ok |-> FALSE]
      [] c.cmd = "select-pane" ->
            IF m.exists /\ c.target.index < Len(m.panes)
            THEN [m |-> [m EXCEPT !.active = c.target.index], ok |-> TRUE]
            ELSE [m |-> m, ok |-> FALSE]
      [] c.cmd = "send-keys" ->
            IF Reached(m, c.target) # {}
            THEN [m |-> [m EXCEPT !.panes = Typed(m.panes, Reached(m, c.target),
                                                  [keys |-> c.keys,
                                                   text |-> c.text])],
                  ok |-> TRUE]
            ELSE [m |-> m, ok |-> FALSE]
      [] OTHER -> [m |-> m, ok |-> m.exists]

\* the k-th and later commands of cmds, run one after the other, each
\* waiting for the one before; nospace is the set of positions in cmds of
\* the splits that find no room, oks the exit statuses so far; the result
\* has the session afterwards and the exit status of every command
RECURSIVE RunFrom(_, _, _, _, _)
RunFrom(m, cmds, k, nospace, oks) ==
    IF k > Len(cmds) THEN [m |-> m, oks |-> oks]
    ELSE LET r == TmuxExec(m, cmds[k], k \notin nospace)
         IN RunFrom(r.m, cmds, k + 1, nospace, Append(oks, r.ok))

\* the commands run, and the session killed when a split has failed
RunRollsBack(m, cmds, nospace) ==
    LET r == RunFrom(m, cmds, 1, nospace, <<>>)
    IN IF \E k \in 1..Len(cmds) :
             cmds[k].cmd = "split-window" /\ ~r.oks[k]
       THEN [m |-> NoSession, oks |-> r.oks]
       ELSE r

Run(m, cmds, nospace) ==
    RunFrom(m, cmds, 1, nospace, <<>>)

\* ------------------------------------------------------------------------
\* State
\* ------------------------------------------------------------------------
VARIABLES
    available_agents,   \* TaskAnalyzer.available_agents, AgentSpawner.agent_specs
    text,               \* a workplan text at hand
    entries,            \* the marker paths that exist in the project directory
    tmux,               \* the tmux session "agent-team"
    issued,             \* the tmux commands of the last call and their status
    call,               \* the last call: operation, arguments, result
    workplan,           \* WORKPLAN.md of the workspace
    claude_md,          \* whether CLAUDE.md exists in the workspace
    pc,                 \* position of AgentOrchestrator.run
    spec,               \* analyze_project: the parsed ProjectSpec
    agents,             \* analyze_project: required_agents
    idx,                \* spawn_agents: loop index
    auto_attach,        \* run: whether --no-attach was not given
    sent                \* run: the tmux commands issued so far, in order

vars == <<available_agents, text, entries, tmux, issued, call,
          workplan, claude_md, pc, spec, agents, idx, auto_attach, sent>>

engineVars == <<available_agents, text, entries>>
runVars == <<workplan, claude_md, pc, spec, agents, idx, auto_attach, sent>>

\* spec = None in analyze_project
NoSpec == [parsed |-> FALSE, agent_tasks |-> <<>>]

NoCall == [op |-> "", args |-> <<>>, ret |-> <<>>, raised |-> ""]

\* ------------------------------------------------------------------------
\* Inputs
\* ------------------------------------------------------------------------
Fragments ==
    << <<"@">> \o RoleChars["frontend-architect"],
       <<"@">> \o RoleChars["fullstack-dev"],
       <<"-", "x">>,
       <<" ", "A", "P", "I", " ", "a", "p", "i">>,
       <<" ", "e", "2", "e", "2", "e">> >>

RECURSIVE TextsOf(_)
TextsOf(n) ==
    IF n = 0 THEN {<<>>}
    ELSE LET shorter == TextsOf(n - 1)
         IN shorter \cup {s \o Fragments[f] :
                             s \in shorter, f \in 1..Len(Fragments)}

Texts == TextsOf(MaxFrags)

AvailablePool ==
    {"frontend-architect", "backend-architect", "qa-engineer", FALLBACK_AGENT}

MarkerPool == {"package.json", "api", "tests"}

Dirs == {E \in SUBSET MarkerPool : Cardinality(E) <= MaxMarkers}

ProjectDir == "/proj"

\* ------------------------------------------------------------------------
\* The engine called on the inputs
\* ------------------------------------------------------------------------
InitInputs ==
    /\ available_agents \in SUBSET AvailablePool
    /\ text \in Texts
    /\ entries \in Dirs

InitIdle ==
    /\ tmux = NoSession
    /\ issued = <<>>
    /\ call = NoCall
    /\ workplan = None
    /\ claude_md = FALSE
    /\ pc = "idle"
    /\ spec = NoSpec
    /\ agents = <<>>
    /\ idx = 0
    /\ auto_attach = TRUE
    /\ sent = <<>>

InitEngine == InitInputs /\ InitIdle

DetermineAgentsCall ==
    \E workplan_content \in {None, text},
       project_dir \in {NoDir, "", ProjectDir} :
        /\ call.op = ""
        /\ call' = [op |-> "determine_agents",
                    args |-> [workplan_content |-> workplan_content,
                              project_dir |-> project_dir],
                    ret |-> DetermineAgents(workplan_content, project_dir,
                                            entries, available_agents),
                    raised |-> ""]
        /\ UNCHANGED <<engineVars, tmux, issued, runVars>>

AnalyzeWorkplanCall ==
    /\ call.op = ""
    /\ call' = [op |-> "analyze_workplan",
                args |-> [workplan_content |-> text],
                ret |-> AnalyzeWorkplan(text, available_agents),
                raised |-> ""]
    /\ UNCHANGED <<engineVars, tmux, issued, runVars>>

AnalyzeProjectStructureCall ==
    /\ call.op = ""
    /\ call' = [op |-> "analyze_project_structure",
                args |-> [project_dir |-> ProjectDir],
                ret |-> AnalyzeProjectStructure(entries, available_agents),
                raised |-> ""]
    /\ UNCHANGED <<engineVars, tmux, issued, runVars>>

FindExplicitAgentsCall ==
    /\ call.op = ""
    /\ call' = [op |-> "_find_explicit_agents",
                args |-> [content |-> text],
                ret |-> FindExplicitAgents(text, available_agents),
                raised |-> ""]
    /\ UNCHANGED <<engineVars, tmux, issued, runVars>>

AnalyzeByKeywordsCall ==
    /\ call.op = ""
    /\ call' = [op |-> "_analyze_by_keywords",
                args |-> [content |-> text],
                ret |-> AnalyzeByKeywords(text, available_agents),
                raised |-> ""]
    /\ UNCHANGED <<engineVars, tmux, issued, runVars>>

NextEngine ==
    \/ DetermineAgentsCall
    \/ AnalyzeWorkplanCall
    \/ AnalyzeProjectStructureCall
    \/ FindExplicitAgentsCall
    \/ AnalyzeByKeywordsCall

SpecEngine == InitEngine /\ [][NextEngine]_vars

\* ------------------------------------------------------------------------
\* The session controller called by a client
\* ------------------------------------------------------------------------
\* role names: the keyword profile's, the fallback and one more
Roster ==
    <<"frontend-architect", "backend-architect", "devops-engineer",
      "qa-engineer", "test-architect", "database-architect", "api-designer",
      "security-auditor", "documentation-writer", FALLBACK_AGENT, "ghost">>

\* the agents arguments of create_session: the first n names of the roster
AgentLists == {SubSeq(Roster, 1, n) : n \in 0..MaxAgents}

\* answers to "Kill and recreate? (y/n): "
Answers == {<<"Y">>, <<"n">>}

\* what input() returns in create_session; the prompt comes up only when
\* the session exists
AnswersIn(m) == IF m.exists THEN Answers ELSE {<<>>}

Commands == {"run"}

\* pane_index arguments of send_command
PaneIndexes == {0, 1, MaxAgents}

SplitPositions(cmds) ==
    {k \in 1..Len(cmds) : cmds[k].cmd = "split-window"}

\* the choices of splits that find no room
NoSpaceChoices(cmds) ==
    {S \in SUBSET SplitPositions(cmds) : Cardinality(S) <= MaxNoSpace}

\* the commands with their exit statuses
Issued(cmds, oks) ==
    <<>> \o [k \in 1..Len(cmds) |-> [c |-> cmds[k], ok |-> oks[k]]]

\* the command keys typed into the panes so far
RECURSIVE CommandCount(_, _)
CommandCount(panes, i) ==
    IF i > Len(panes) THEN 0
    ELSE Cardinality({k \in 1..Len(panes[i]) : panes[i][k].keys = "command"})
         + CommandCount(panes, i + 1)

InitCtl ==
    /\ available_agents = {}
    /\ text = <<>>
    /\ entries = {}
    /\ InitIdle

CreateSessionCall ==
    \E agent_list \in AgentLists, user_input \in AnswersIn(tmux) :
    \E out \in {CreateSession(tmux.exists, agent_list, user_input)} :
    \E nospace \in NoSpaceChoices(out.cmds) :
    \E r \in {Run(tmux, out.cmds, nospace)} :
        /\ tmux' = r.m
        /\ issued' = Issued(out.cmds, r.oks)
        /\ call' = [op |-> "create_session",
                    args |-> [agents |-> agent_list,
                              user_input |-> user_input,
                              existed |-> tmux.exists,
                              nospace |-> nospace],
                    ret |-> <<>>,
                    raised |-> out.raised]
        /\ UNCHANGED <<engineVars, runVars>>

SendCommandCall ==
    \E pane_index \in PaneIndexes, command \in Commands :
        LET cmds == <<SendCommandCmd(pane_index, command)>>
            r == Run(tmux, cmds, {})
        IN /\ CommandCount(tmux.panes, 1) < MaxDispatch
           /\ tmux' = r.m
           /\ issued' = Issued(cmds, r.oks)
           /\ call' = [op |-> "send_command",
                       args |-> [pane_index |-> pane_index,
                                 command |-> command],
                       ret |-> <<>>,
                       raised |-> ""]
           /\ UNCHANGED <<engineVars, runVars>>

KillSessionCall ==
    LET cmds == KillSessionCmds(tmux.exists)
        r == Run(tmux, cmds, {})
    IN /\ tmux' = r.m
       /\ issued' = Issued(cmds, r.oks)
       /\ call' = [op |-> "kill_session", args |-> <<>>, ret |-> <<>>,
                   raised |-> ""]
       /\ UNCHANGED <<engineVars, runVars>>

AttachCall ==
    LET cmds == <<AttachCmd>>
        r == Run(tmux, cmds, {})
    IN /\ tmux' = r.m
       /\ issued' = Issued(cmds, r.oks)
       /\ call' = [op |-> "attach", args |-> <<>>, ret |-> <<>>,
                   raised |-> ""]
       /\ UNCHANGED <<engineVars, runVars>>

SessionExistsCall ==
    LET cmds == <<HasSessionCmd>>
        r == Run(tmux, cmds, {})
    IN /\ tmux' = r.m
       /\ issued' = Issued(cmds, r.oks)
       /\ call' = [op |-> "session_exists", args |-> <<>>, ret |-> r.oks[1],
                   raised |-> ""]
       /\ UNCHANGED <<engineVars, runVars>>

\* get_pane_count: 0 without a session, else the number of lines list-panes
\* prints
GetPaneCountCall ==
    LET cmds == IF tmux.exists THEN <<HasSessionCmd, ListPanesCmd>>
                ELSE <<HasSessionCmd>>
        r == Run(tmux, cmds, {})
    IN /\ tmux' = r.m
       /\ issued' = Issued(cmds, r.oks)
       /\ call' = [op |-> "get_pane_count", args |-> <<>>,
                   ret |-> IF tmux.exists THEN Len(tmux.panes) ELSE 0,
                   raised |-> ""]
       /\ UNCHANGED <<engineVars, runVars>>

NextCtl ==
    \/ CreateSessionCall
    \/ SendCommandCall
    \/ KillSessionCall
    \/ AttachCall
    \/ SessionExistsCall
    \/ GetPaneCountCall

SpecCtl == InitCtl /\ [][NextCtl]_vars

\* ------------------------------------------------------------------------
\* orchestrator.py: AgentOrchestrator.run
\* ------------------------------------------------------------------------
\* role names of the "## @role Tasks" sections of a workplan
SectionPool == {"frontend-architect", "qa-engineer", "ghost"}

RECURSIVE SectionLists(_)
SectionLists(n) ==
    IF n = 0 THEN {<<>>}
    ELSE LET shorter == SectionLists(n - 1)
         IN shorter \cup {Append(s, r) : s \in shorter, r \in SectionPool}

\* the contents of the agent specification directory
RunAvailable == {{}, AvailablePool \ {FALLBACK_AGENT}, AvailablePool}

\* a session "agent-team" that an earlier run has left behind
LeftBehind == Run(NoSession, NewSessionCmds(SubSeq(Roster, 1, 2)), {}).m

\* the keys of the agent_tasks dict that _extract_agent_tasks builds from the
\* sections of the workplan, in the order of insertion
RECURSIVE ExtractAgentTasks(_)
ExtractAgentTasks(sections) ==
    IF sections = <<>> THEN <<>>
    ELSE LET front == ExtractAgentTasks(SubSeq(sections, 1, Len(sections) - 1))
             agent_name == sections[Len(sections)]
         IN IF agent_name \in Range(front) THEN front
            ELSE Append(front, agent_name)

\* SpecParser.parse as analyze_project uses it: the ProjectSpec with its
\* agent_tasks keys, or no spec after FileNotFoundError
Parse(workplan_file, claude_md_exists) ==
    IF workplan_file = None /\ ~claude_md_exists THEN NoSpec
    ELSE IF workplan_file = None
    THEN [parsed |-> TRUE, agent_tasks |-> <<>>]
    ELSE [parsed |-> TRUE, agent_tasks |-> ExtractAgentTasks(workplan_file)]

\* the required_agents of analyze_project
RequiredAgents(project_spec, entries_, available) ==
    IF project_spec.parsed /\ project_spec.agent_tasks # <<>>
    THEN project_spec.agent_tasks
    ELSE DetermineAgents(None, ProjectDir, entries_, available)

InitRun ==
    /\ available_agents \in RunAvailable
    /\ text = <<>>
    /\ entries \in Dirs
    /\ tmux \in {NoSession, LeftBehind}
    /\ issued = <<>>
    /\ call = NoCall
    /\ workplan \in {None} \cup SectionLists(MaxSections)
    /\ claude_md \in (IF workplan = None THEN BOOLEAN ELSE {FALSE})
    /\ pc = "analyze_project"
    /\ spec = NoSpec
    /\ agents = <<>>
    /\ idx = 0
    /\ auto_attach \in BOOLEAN
    /\ sent = <<>>

\* the end of analyze_project: sys.exit(1) when no agent is required, else
\* run goes on to setup_tmux_session
AfterAnalyzeSetsUpAnyway(required_agents) == "setup_tmux_session"

AfterAnalyze(required_agents) ==
    IF required_agents = <<>> THEN "exit_1" ELSE "setup_tmux_session"

\* analyze_project: parse, determine, exit with 1 when no agent is required
AnalyzeProject ==
    /\ pc = "analyze_project"
    /\ spec' = Parse(workplan, claude_md)
    /\ agents' = RequiredAgents(spec', entries, available_agents)
    /\ pc' = AfterAnalyze(agents')
    /\ UNCHANGED <<engineVars, tmux, issued, call, workplan, claude_md, idx,
                   auto_attach, sent>>

\* whether the commands have tmux attach the terminal to the session
Attaches(cmds) == \E k \in 1..Len(cmds) : cmds[k] = AttachCmd

\* Ctrl-C while attach() blocks in subprocess.run raises KeyboardInterrupt
\* in the caller
Interruptions(cmds) == IF Attaches(cmds) THEN BOOLEAN ELSE {FALSE}

\* setup_tmux_session: create_session(agents, project_dir); nothing in
\* create_session, setup_tmux_session or run catches what it raises
SetupTmuxSession ==
    /\ pc = "setup_tmux_session"
    /\ \E user_input \in AnswersIn(tmux) :
       \E out \in {CreateSession(tmux.exists, agents, user_input)} :
       \E nospace \in NoSpaceChoices(out.cmds) :
       \E interrupted \in Interruptions(out.cmds) :
       \E r \in {Run(tmux, out.cmds, nospace)} :
       \E raised \in {IF interrupted THEN "KeyboardInterrupt"
                      ELSE out.raised} :
           /\ tmux' = r.m
           /\ issued' = Issued(out.cmds, r.oks)
           /\ sent' = sent \o out.cmds
           /\ call' = [op |-> "create_session",
                       args |-> [agents |-> agents,
                                 user_input |-> user_input,
                                 existed |-> tmux.exists,
                                 nospace |-> nospace],
                       ret |-> <<>>,
                       raised |-> raised]
           /\ pc' = IF raised = "" THEN "spawn_agents" ELSE "raised"
    /\ idx' = 0
    /\ UNCHANGED <<engineVars, workplan, claude_md, spec, agents, auto_attach>>

\* generate_agent_command: the command for a known agent, or ValueError
GenerateAgentCommand(agent_name, agent_specs) ==
    IF agent_name \notin agent_specs
    THEN [raised |-> "ValueError", command |-> ""]
    ELSE [raised |-> "", command |-> agent_name]

\* one iteration of the loop of spawn_agents
SpawnAgent ==
    /\ pc = "spawn_agents"
    /\ idx < Len(agents)
    /\ \E gen \in {GenerateAgentCommand(agents[idx + 1], available_agents)} :
          IF gen.raised # ""
          THEN /\ pc' = "raised"
               /\ call' = [op |-> "generate_agent_command",
                           args |-> [agent_name |-> agents[idx + 1]],
                           ret |-> <<>>, raised |-> gen.raised]
               /\ UNCHANGED <<tmux, issued, idx, sent>>
          ELSE \E cmds \in {<<SendCommandCmd(idx, gen.command)>>} :
               \E r \in {Run(tmux, cmds, {})} :
                   /\ tmux' = r.m
                   /\ issued' = Issued(cmds, r.oks)
                   /\ sent' = sent \o cmds
                   /\ call' = [op |-> "send_command",
                               args |-> [pane_index |-> idx,
                                         command |-> gen.command],
                               ret |-> <<>>, raised |-> ""]
                   /\ idx' = idx + 1
                   /\ pc' = "spawn_agents"
    /\ UNCHANGED <<engineVars, workplan, claude_md, spec, agents, auto_attach>>

\* where Ctrl-C can fall in the try block at the end of run: nowhere, in
\* time.sleep(2), or while attach() blocks
Interrupts == {"", "sleep", "attach"}

\* the try block with kill-session issued when Ctrl-C falls in it
AttachOutcomeCleansUp(auto, interrupt) == [cmds |-> IF ~auto THEN <<>> ELSE IF interrupt = "" THEN <<AttachCmd>> ELSE <<KillSessionCmd>>, pc |-> "returned"]

\* the try block at the end of run: the commands issued and how the block
\* ends; except KeyboardInterrupt prints and run returns
AttachOutcome(auto, interrupt) ==
    [cmds |-> IF auto /\ interrupt # "sleep" THEN <<AttachCmd>> ELSE <<>>,
     pc |-> "returned"]

\* the end of run: attach unless --no-attach; a KeyboardInterrupt in the
\* two seconds before the attach, or during it, is caught
AttachStep ==
    /\ pc = "spawn_agents"
    /\ idx = Len(agents)
    /\ \E interrupt \in (IF auto_attach THEN Interrupts ELSE {""}) :
       \E out \in {AttachOutcome(auto_attach, interrupt)} :
       \E r \in {Run(tmux, out.cmds, {})} :
           /\ tmux' = r.m
           /\ issued' = Issued(out.cmds, r.oks)
           /\ sent' = sent \o out.cmds
           /\ call' = [op |-> IF out.cmds = <<>> THEN "no_attach"
                              ELSE "attach",
                       args |-> [interrupt |-> interrupt],
                       ret |-> <<>>, raised |-> ""]
           /\ pc' = out.pc
    /\ UNCHANGED <<engineVars, workplan, claude_md, spec, agents, idx,
                   auto_attach>>

NextRun ==
    \/ AnalyzeProject
    \/ SetupTmuxSession
    \/ SpawnAgent
    \/ AttachStep

SpecRun == InitRun /\ [][NextRun]_vars

\* ------------------------------------------------------------------------
\* Properties of the engine (SpecEngine)
\* ------------------------------------------------------------------------
Determined == call.op = "determine_agents"

\* what each tier of the last determine_agents call yields by itself
ExplicitTier ==
    IF TruthyText(call.args.workplan_content)
    THEN FindExplicitAgents(call.args.workplan_content, available_agents)
    ELSE {}

KeywordTier ==
    IF TruthyText(call.args.workplan_content) /\ ExplicitTier = {}
    THEN AnalyzeByKeywords(call.args.workplan_content, available_agents)
    ELSE {}

StructureTier ==
    IF TruthyDir(call.args.project_dir)
    THEN StructureAgents(entries, available_agents)
    ELSE {}

MergedTiers == ExplicitTier \cup KeywordTier \cup StructureTier

\* C2: determine_agents returns the fallback role only when the merged
\* result of the tiers is empty: when a tier yields a role other than the
\* fallback and no tier yields the fallback, the result is without it.
C2_FallbackOnlyWhenMergedEmpty ==
    (Determined /\ MergedTiers # {} /\ FALLBACK_AGENT \notin MergedTiers)
        => FALLBACK_AGENT \notin Range(call.ret)

C9_NonEmptyUnlessNoneAvailable ==
    (Determined /\ available_agents # {}) => call.ret # <<>>

\* C9, amended: over an available universe that contains the fallback role,
\* determine_agents returns at least one role.
C9_NonEmptyWhenFallbackAvailable ==
    (Determined /\ FALLBACK_AGENT \in available_agents) => call.ret # <<>>

C9_Witness ==
    /\ Determined
    /\ FALLBACK_AGENT \in available_agents
    /\ MergedTiers = {}
    /\ call.ret = <<FALLBACK_AGENT>>

\* C10: when the text mentions an available role with @, analyze_workplan
\* returns exactly the available roles mentioned with @, whatever the
\* keyword scores are.
C10_MentionsSkipKeywords ==
    LET mentioned == {agent \in available_agents :
                        RoleChars[agent] \in Mentions(text)}
    IN (call.op = "analyze_workplan" /\ mentioned # {})
           => Range(call.ret) = mentioned

\* a role not mentioned scores at least the threshold and stays out
C10_Witness ==
    /\ call.op = "analyze_workplan"
    /\ \E agent \in available_agents : RoleChars[agent] \in Mentions(text)
    /\ \E agent \in (ProfileRoles \cap available_agents) :
          /\ Score(text, agent) >= threshold
          /\ RoleChars[agent] \notin Mentions(text)
          /\ agent \notin Range(call.ret)

\* C11 as stated: when the explicit mentions or the keyword scores yield a
\* role, the result of determine_agents holds no role that only a marker of
\* the project structure justifies.
C11_StructureOnlyWhenTiersEmpty ==
    (Determined /\ (ExplicitTier \cup KeywordTier) # {})
        => Range(call.ret) \cap (StructureTier \ (ExplicitTier \cup KeywordTier))
               = {}

\* C11: determine_agents consults the project structure whenever a project
\* directory is given: also when the explicit mentions or the keyword scores
\* yield a role, every available role that a marker justifies is in the
\* result.
C11_StructureAlwaysMerged ==
    (Determined /\ (ExplicitTier \cup KeywordTier) # {})
        => StructureTier \subseteq Range(call.ret)

\* a mention yields a role and a marker adds another one
C11_Witness ==
    /\ Determined
    /\ ExplicitTier # {}
    /\ StructureTier \ (ExplicitTier \cup KeywordTier) # {}
    /\ Range(call.ret) = ExplicitTier \cup StructureTier

\* C12: for every available universe, text and project directory the
\* sequence determine_agents returns is strictly ascending in code-point
\* order, hence without duplicates, and holds available roles only.
C12_SortedUniqueAvailable ==
    Determined =>
        /\ \A i, j \in 1..Len(call.ret) :
              i < j => StrLess(RoleChars[call.ret[i]], RoleChars[call.ret[j]])
        /\ Range(call.ret) \subseteq available_agents

\* two tiers contribute and the result has several roles to order
C12_Witness ==
    /\ Determined
    /\ Len(call.ret) >= 2
    /\ StructureTier # {}
    /\ ExplicitTier \cup KeywordTier # {}

\* the positions of s at which kw occurs
Occurrences(s, kw) ==
    {i \in 1..(Len(s) - Len(kw) + 1) : MatchAt(s, kw, i)}

\* the occurrences that do not overlap an occurrence taken before them,
\* taken from the left
RECURSIVE DisjointOccurrences(_, _)
DisjointOccurrences(P, len) ==
    IF P = {} THEN 0
    ELSE LET p == CHOOSE q \in P : \A r \in P : q <= r
         IN 1 + DisjointOccurrences({q \in P : q >= p + len}, len)

RECURSIVE SumOfOccurrences(_, _, _, _)
SumOfOccurrences(s, keywords, k, overlapping) ==
    IF k > Len(keywords) THEN 0
    ELSE LET kw == Lower(keywords[k])
             P == Occurrences(s, kw)
         IN (IF overlapping THEN Cardinality(P)
             ELSE DisjointOccurrences(P, Len(kw)))
            + SumOfOccurrences(s, keywords, k + 1, overlapping)

OccurrenceSum(agent, overlapping) ==
    SumOfOccurrences(Lower(text), KEYWORD_AGENT_MAP[agent], 1, overlapping)

\* C13 as stated: _analyze_by_keywords returns a role exactly when it is in
\* the keyword profile and available and its trigger phrases occur, as
\* substrings of the lower-cased text, at least twice in sum.
C13_EveryOccurrenceCounts ==
    call.op = "_analyze_by_keywords" =>
        call.ret = {agent \in ProfileRoles \cap available_agents :
                      OccurrenceSum(agent, TRUE) >= threshold}

\* C13: _analyze_by_keywords returns a role exactly when it is in the
\* keyword profile and available and its trigger phrases have, in sum, at
\* least two occurrences in the lower-cased text that do not overlap an
\* earlier occurrence of the same phrase.
C13_DisjointOccurrencesCount ==
    call.op = "_analyze_by_keywords" =>
        call.ret = {agent \in ProfileRoles \cap available_agents :
                      OccurrenceSum(agent, FALSE) >= threshold}

\* one role is in with two occurrences, another is out with one
C13_Witness ==
    /\ call.op = "_analyze_by_keywords"
    /\ \E agent \in call.ret : OccurrenceSum(agent, FALSE) = threshold
    /\ \E agent \in (ProfileRoles \cap available_agents) \ call.ret :
          OccurrenceSum(agent, FALSE) = 1

\* ------------------------------------------------------------------------
\* Properties of the session controller (SpecCtl)
\* ------------------------------------------------------------------------
\* the titles typed into a pane, in order
Titles(pane) ==
    LET RECURSIVE From(_)
        From(k) == IF k > Len(pane) THEN <<>>
                   ELSE IF pane[k].keys = "title"
                   THEN <<pane[k].text>> \o From(k + 1)
                   ELSE From(k + 1)
    IN From(1)

\* the last call was a create_session that found no session and whose
\* commands all found room
CreatedFresh ==
    /\ call.op = "create_session"
    /\ ~call.args.existed
    /\ call.args.nospace = {}
    /\ call.args.agents # <<>>

\* C1: create_session with a non-empty agents list on a fresh session name
\* ends with exactly len(agents) panes, pane i labeled agents[i].
C1_OnePanePerRole ==
    CreatedFresh =>
        /\ Len(tmux.panes) = Len(call.args.agents)
        /\ \A i \in 1..Len(call.args.agents) :
              Titles(tmux.panes[i]) = <<call.args.agents[i]>>

\* C4: create_session with an empty agents list raises the invalid-layout
\* error (ValueError) in every starting state.
C4_EmptyRolesRaise ==
    (call.op = "create_session" /\ call.args.agents = <<>>)
        => call.raised = "ValueError"

\* C5: send_command with a pane index outside the panes of the session fails
\* with PaneNotFoundError and no keys reach a pane.
C5_BadIndexRaises ==
    (/\ call.op = "send_command"
     /\ tmux.exists
     /\ call.args.pane_index >= Len(tmux.panes))
        => /\ call.raised = "PaneNotFoundError"
           /\ \A k \in 1..Len(issued) : ~issued[k].ok

MutatingCommands ==
    {"kill-session", "new-session", "split-window", "select-layout",
     "set-option", "set-window-option", "send-keys"}

\* the user's answer is not a yes
Declines(user_input) == user_input \notin {<<"y">>, <<"Y">>}

\* C6: a create_session that finds the session and is answered with
\* anything but yes issues no mutating tmux command and leaves the session,
\* its panes and their contents as they were.
C6_DeclineLeavesSession ==
    [][(/\ call'.op = "create_session"
        /\ tmux.exists
        /\ call'.args.existed
        /\ Declines(call'.args.user_input))
           => (/\ tmux' = tmux
               /\ \A k \in 1..Len(issued') :
                     issued'[k].c.cmd \notin MutatingCommands)]_vars

C6_Witness ==
    /\ call.op = "create_session"
    /\ call.args.existed
    /\ Declines(call.args.user_input)
    /\ call.args.agents # <<>>
    /\ Len(tmux.panes) >= 2
    /\ \E i \in 1..Len(tmux.panes) : tmux.panes[i] # <<>>

IsSyncOff(c) ==
    c.cmd = "set-window-option" /\ c.text = "synchronize-panes off"

IsSyncOn(c) ==
    c.cmd \in {"set-window-option", "set-option"}
        /\ c.text = "synchronize-panes on"

\* C7: a create_session that issues new-session issues synchronize-panes
\* off after it, before it returns, whatever the number of agents; no call
\* issues synchronize-panes on, and no session has it on.
C7_SyncOffAfterNewSession ==
    /\ call.op = "create_session" =>
          \A k \in 1..Len(issued) :
              issued[k].c.cmd = "new-session" =>
                  \E j \in (k + 1)..Len(issued) : IsSyncOff(issued[j].c)
    /\ \A k \in 1..Len(issued) : ~IsSyncOn(issued[k].c)
    /\ ~tmux.sync

\* the tiled branch ran
C7_Witness ==
    /\ call.op = "create_session"
    /\ Len(call.args.agents) >= 7
    /\ \E k \in 1..Len(issued) : issued[k].c.cmd = "new-session"
    /\ IsSyncOff(issued[Len(issued)].c)
    /\ issued[Len(issued)].ok

\* the positions of the commands of the last call that failed
Failed == {k \in 1..Len(issued) : ~issued[k].ok}

\* the positions of the split-window commands of the last call
Splits == {k \in 1..Len(issued) : issued[k].c.cmd = "split-window"}

\* the number of splits each layout of create_session takes
PlannedSplits(num_agents) ==
    IF num_agents <= 2 THEN num_agents - 1
    ELSE IF num_agents <= 4 THEN 3
    ELSE IF num_agents <= 6 THEN 5
    ELSE num_agents - 1

\* C17: when a split fails in the middle of create_session, the manager
\* issues no kill-session after new-session and repeats no command (one
\* new-session, the splits of the layout once each, one title per agent,
\* one synchronize-panes off), and the session keeps the first pane and
\* one pane for every split that succeeded.
C17_NoRollbackNoRetry ==
    (call.op = "create_session" /\ call.raised = ""
        /\ Failed \cap Splits # {})
        => LET n == Len(call.args.agents)
               created == CHOOSE k \in 1..Len(issued) :
                             issued[k].c = NewSessionCmd
               Times(Test(_)) ==
                   Cardinality({k \in 1..Len(issued) : Test(issued[k].c)})
               IsSplit(c) == c.cmd = "split-window"
               IsTitle(c) == c.keys = "title"
               IsNew(c) == c = NewSessionCmd
           IN /\ \A k \in 1..Len(issued) :
                    k > created => issued[k].c.cmd # "kill-session"
              /\ Times(IsNew) = 1
              /\ Times(IsSplit) = PlannedSplits(n)
              /\ Times(IsTitle) = n
              /\ Times(IsSyncOff) = 1
              /\ tmux.exists
              /\ Len(tmux.panes) = 1 + Cardinality(Splits \ Failed)

\* a split fails, later splits succeed, and the panes are there
C17_Witness ==
    /\ call.op = "create_session"
    /\ call.raised = ""
    /\ \E k \in Failed \cap Splits : \E j \in Splits \ Failed : j > k
    /\ \E k \in Failed \cap Splits : \E j \in Splits \ Failed : j < k
    /\ Len(tmux.panes) >= 3

\* C19: whenever create_session raises because agents is empty, tmux is as
\* it was before the call: a session that existed still exists with the
\* same panes.
C19_EmptyRolesLeaveTmux ==
    [][(call'.op = "create_session" /\ call'.raised = "ValueError"
            /\ call'.args.agents = <<>>)
          => tmux' = tmux]_vars

\* ------------------------------------------------------------------------
\* Properties of the orchestration run (SpecRun)
\* ------------------------------------------------------------------------
\* C3: once the run has created panes for its role list, every role of the
\* list is a member of the available universe, and generate_agent_command
\* has not failed for an unknown role.
C3_SpawnedRolesAreAvailable ==
    pc \in {"spawn_agents", "returned", "raised"} =>
        /\ Range(agents) \subseteq available_agents
        /\ ~(call.op = "generate_agent_command" /\ call.raised = "ValueError")

\* the title and the startup commands among tmux commands
IsLabel(c) == c.cmd = "send-keys" /\ c.keys = "title"
IsDispatch(c) == c.cmd = "send-keys" /\ c.keys = "command"

Labels == SelectSeq(sent, IsLabel)
Dispatches == SelectSeq(sent, IsDispatch)

\* the run is over, by return or by an exception, and its create_session
\* has created the session
EndedAfterCreating ==
    /\ pc \in {"returned", "raised"}
    /\ \E k \in 1..Len(sent) : sent[k] = NewSessionCmd

\* C14: in a run whose create_session creates the session, the labels are
\* issued in the order of the roles, and exactly one startup command is
\* issued per role, for roles[i] to pane index i, in ascending order.
C14_LabelsAndDispatchesInOrder ==
    EndedAfterCreating =>
        /\ Len(Labels) = Len(agents)
        /\ \A i \in 1..Len(Labels) : Labels[i].text = agents[i]
        /\ Len(Dispatches) = Len(agents)
        /\ \A i \in 1..Len(Dispatches) :
              /\ Dispatches[i].text
                    = GenerateAgentCommand(agents[i], available_agents).command
              /\ Dispatches[i].target = PaneTarget(i - 1)

\* C15: when the list of required agents is empty, the run exits with
\* code 1 out of analyze_project: no tmux command has been issued and tmux
\* is as the run found it.
C15_EmptyRolesExitFirst ==
    (pc # "analyze_project" /\ agents = <<>>)
        => /\ pc = "exit_1"
           /\ sent = <<>>
           /\ issued = <<>>
           /\ tmux \in {NoSession, LeftBehind}

C15_Witness ==
    /\ pc = "exit_1"
    /\ agents = <<>>
    /\ tmux = LeftBehind

C18_LabelAndDispatchSameTarget ==
    (pc = "returned" /\ EndedAfterCreating)
        => \A i \in 1..Len(agents) :
              /\ Reached(tmux, Labels[i].target) = {i - 1}
              /\ Reached(tmux, Dispatches[i].target) = {i - 1}

\* C20: attach is the last step of every run: no attach-session is issued
\* before the startup commands of all roles have been issued.
C20_AttachLast ==
    \A k \in 1..Len(sent) :
        sent[k] = AttachCmd
            => Len(SelectSeq(SubSeq(sent, 1, k - 1), IsDispatch))
                  = Len(agents)
====
